---------------------------- MODULE Spec2Model ----------------------------
(***************************************************************************)
(* Model of revault_net's message layer (src/src/message.rs): the untagged *)
(* Request / RequestParams / ResponseResult unions, the Response envelope, *)
(* the From conversions, the transaction hex codec and SetSpendTx.         *)
(*                                                                         *)
(* Wire text is modelled by its JSON syntax tree with ORDERED members and  *)
(* literal scalar tokens, so that "byte-identical text" is equality of     *)
(* trees.  serde_json's compact writer is a function of that tree.         *)
(*                                                                         *)
(* External values (keys, signatures, txids, transactions) are scaled to   *)
(* a few bytes each, but keep their text conversions: lowercase hex,       *)
(* reversed hex for txids, "txid:vout" for outpoints, consensus encoding   *)
(* with the BIP141 marker for transactions.                                *)
(***************************************************************************)
EXTENDS Integers, Sequences, FiniteSets, TLC

(***************************************************************************)
(* Bounds of the model.                                                    *)
(***************************************************************************)
\* how many times a peer may tamper with a text before it is decoded
MaxTamper == 1
\* how many insertions a caller makes into each key/signature map it builds
MaxInserts == 2

(***************************************************************************)
(* Generic helpers.                                                        *)
(***************************************************************************)
Ok(v) == [ok |-> TRUE, val |-> v]
Err(why) == [ok |-> FALSE, val |-> why]

RECURSIVE Flatten(_)
Flatten(ss) == IF ss = <<>> THEN <<>> ELSE Head(ss) \o Flatten(Tail(ss))

Reverse(s) == [i \in 1..Len(s) |-> s[Len(s) + 1 - i]]

Range(s) == {s[i] : i \in 1..Len(s)}

(***************************************************************************)
(* u32.  TLC's integers are 32-bit signed, so a u32 is kept as two 16-bit  *)
(* limbs; every value of the record is a u32 and every u32 is one record.  *)
(***************************************************************************)
U32(h, l) == [hi |-> h, lo |-> l]
U32_MAX == U32(65535, 65535)
U32Less(a, b) == a.hi < b.hi \/ (a.hi = b.hi /\ a.lo < b.lo)

DecDigits == <<"0", "1", "2", "3", "4", "5", "6", "7", "8", "9">>

\* itoa, as serde_json writes an unsigned integer: plain decimal digits
RECURSIVE U32ToDecimal(_)
U32ToDecimal(n) ==
    LET r  == n.hi % 10
        t  == r * 65536 + n.lo
        q  == U32(n.hi \div 10, t \div 10)
        d  == DecDigits[(t % 10) + 1]
    IN  IF q = U32(0, 0) THEN <<d>> ELSE U32ToDecimal(q) \o <<d>>

DecVal(c) == CHOOSE i \in 0..9 : DecDigits[i + 1] = c

\* serde_json's number parser followed by the u32 visitor: a sequence of
\* decimal digits without sign, fraction or exponent, no leading zero, and
\* a value that fits 32 bits
RECURSIVE DecimalAcc(_, _)
DecimalAcc(s, acc) ==
    IF s = <<>> THEN Ok(acc)
    ELSE LET l == acc.lo * 10 + DecVal(Head(s))
             h == acc.hi * 10 + (l \div 65536)
         IN  IF h > 65535 THEN Err("out of range")
             ELSE DecimalAcc(Tail(s), U32(h, l % 65536))

U32FromDecimal(s) ==
    IF s = <<>> \/ \E i \in 1..Len(s) : s[i] \notin Range(DecDigits)
    THEN Err("invalid type")
    ELSE IF Len(s) > 1 /\ s[1] = "0" THEN Err("invalid number")
    ELSE IF Len(s) > 10 THEN Err("out of range")
    ELSE DecimalAcc(s, U32(0, 0))

(***************************************************************************)
(* Hexadecimal text.                                                       *)
(***************************************************************************)
HexDigits == <<"0", "1", "2", "3", "4", "5", "6", "7",
               "8", "9", "a", "b", "c", "d", "e", "f">>
UpperHexDigits == <<"0", "1", "2", "3", "4", "5", "6", "7",
                    "8", "9", "A", "B", "C", "D", "E", "F">>

\* ToHex: two lowercase digits per byte, no prefix, no separator
ToHex(bytes) ==
    Flatten([i \in 1..Len(bytes) |->
                <<HexDigits[(bytes[i] \div 16) + 1], HexDigits[(bytes[i] % 16) + 1]>>])

IsHexDigit(c) == c \in Range(HexDigits) \cup Range(UpperHexDigits)
HexVal(c) == CHOOSE i \in 0..15 : HexDigits[i + 1] = c \/ UpperHexDigits[i + 1] = c

\* FromHex: an even number of hex digits of either case
FromHex(s) ==
    IF Len(s) % 2 # 0 THEN Err("odd length")
    ELSE IF \E i \in 1..Len(s) : ~IsHexDigit(s[i]) THEN Err("invalid char")
    ELSE Ok([i \in 1..(Len(s) \div 2) |-> HexVal(s[2 * i - 1]) * 16 + HexVal(s[2 * i])])


(***************************************************************************)
(* Wire text: a JSON value is [t, s, m] with t its type, s its literal     *)
(* tokens (scalars) and m its members in textual order (objects, arrays).  *)
(***************************************************************************)
JStr(tokens) == [t |-> "str", s |-> tokens, m |-> <<>>]
JNum(tokens) == [t |-> "num", s |-> tokens, m |-> <<>>]
JBool(b) == [t |-> "bool", s |-> <<IF b THEN "true" ELSE "false">>, m |-> <<>>]
JObj(members) == [t |-> "obj", s |-> <<>>, m |-> members]
JArr(elems) == [t |-> "arr", s |-> <<>>,
                m |-> [i \in 1..Len(elems) |-> [k |-> <<>>, x |-> elems[i]]]]
\* a member whose key is the field name `name`
Mem(name, x) == [k |-> <<name>>, x |-> x]

(***************************************************************************)
(* The opaque cryptographic values and their text codecs (the Serialize /  *)
(* Deserialize impls of secp256k1 and bitcoin, human-readable form).       *)
(*   PublicKey : <<prefix, x>>, prefix 2 or 3 (compressed form)            *)
(*   Signature : <<48, x>>, the DER bytes (0x30 SEQUENCE tag first)        *)
(*   Txid      : two bytes, displayed in reversed byte order               *)
(*   OutPoint  : [txid, vout], displayed as "<txid>:<vout>"                *)
(***************************************************************************)
IsPublicKey(b) == Len(b) = 2 /\ b[1] \in {2, 3}
IsSignature(b) == Len(b) = 2 /\ b[1] = 48
IsTxid(b) == Len(b) = 2

PublicKey_to_str(k) == ToHex(k)
PublicKey_from_str(s) ==
    LET b == FromHex(s)
    IN  IF b.ok /\ IsPublicKey(b.val) THEN Ok(b.val) ELSE Err("invalid public key")

Signature_to_str(sig) == ToHex(sig)
Signature_from_str(s) ==
    LET b == FromHex(s)
    IN  IF b.ok /\ IsSignature(b.val) THEN Ok(b.val) ELSE Err("invalid signature")

Txid_to_str(txid) == ToHex(Reverse(txid))
Txid_from_str(s) ==
    LET b == FromHex(s)
    IN  IF b.ok /\ IsTxid(b.val) THEN Ok(Reverse(b.val)) ELSE Err("invalid txid")

OutPoint_to_str(o) == Txid_to_str(o.txid) \o <<":">> \o U32ToDecimal(o.vout)
\* OutPoint::from_str: exactly one ':', neither first nor last, a txid before
\* it and a canonical u32 after it
OutPoint_from_str(s) ==
    LET colons == {i \in 1..Len(s) : s[i] = ":"}
    IN  IF Cardinality(colons) # 1 THEN Err("format")
        ELSE LET c == CHOOSE i \in colons : TRUE
                 t == Txid_from_str(SubSeq(s, 1, c - 1))
                 v == U32FromDecimal(SubSeq(s, c + 1, Len(s)))
             IN  IF c = 1 \/ c = Len(s) THEN Err("format")
                 ELSE IF ~t.ok THEN Err("txid")
                 ELSE IF ~v.ok THEN Err("vout")
                 ELSE Ok([txid |-> t.val, vout |-> v.val])

\* PublicKey's Ord, which orders a BTreeMap<PublicKey, Signature>
RECURSIVE BytesLess(_, _)
BytesLess(a, b) ==
    IF b = <<>> THEN FALSE
    ELSE IF a = <<>> THEN TRUE
    ELSE IF Head(a) # Head(b) THEN Head(a) < Head(b)
    ELSE BytesLess(Tail(a), Tail(b))

(***************************************************************************)
(* bitcoin::Transaction and its consensus encoding.  A transaction is      *)
(* [version, input, output, lock_time]; an input is [prev, witness], a     *)
(* witness a sequence of one-byte stack items, an output one byte.         *)
(***************************************************************************)
Tx(v, ins, outs, lt) == [version |-> v, input |-> ins, output |-> outs, lock_time |-> lt]
TxIn(p, w) == [prev |-> p, witness |-> w]

\* MUTANT of consensus_serialize: the BIP141 form only when some input carries a
\* witness, so that a transaction without inputs is written in the legacy form
consensus_serialize_WitnessedInputsOnly(tx) ==
    LET have_witness == \E i \in 1..Len(tx.input) : tx.input[i].witness # <<>>
    IN  <<tx.version>>
        \o (IF have_witness THEN <<0, 1>> ELSE <<>>)
        \o <<Len(tx.input)>> \o [i \in 1..Len(tx.input) |-> tx.input[i].prev]
        \o <<Len(tx.output)>> \o tx.output
        \o (IF have_witness
            THEN Flatten([i \in 1..Len(tx.input) |->
                            <<Len(tx.input[i].witness)>> \o tx.input[i].witness])
            ELSE <<>>)
        \o <<tx.lock_time>>

\* encode::serialize(tx): BIP141 form (marker 00, flag 01, witnesses after
\* the outputs) when some input carries a witness or there is no input
consensus_serialize(tx) ==
    LET have_witness == tx.input = <<>>
                        \/ \E i \in 1..Len(tx.input) : tx.input[i].witness # <<>>
    IN  <<tx.version>>
        \o (IF have_witness THEN <<0, 1>> ELSE <<>>)
        \o <<Len(tx.input)>> \o [i \in 1..Len(tx.input) |-> tx.input[i].prev]
        \o <<Len(tx.output)>> \o tx.output
        \o (IF have_witness
            THEN Flatten([i \in 1..Len(tx.input) |->
                            <<Len(tx.input[i].witness)>> \o tx.input[i].witness])
            ELSE <<>>)
        \o <<tx.lock_time>>

\* the witnesses of n inputs read from b at position p: Ok([ws, next]) or Err
RECURSIVE ReadWitnesses(_, _, _)
ReadWitnesses(b, p, n) ==
    IF n = 0 THEN Ok([ws |-> <<>>, next |-> p])
    ELSE IF p > Len(b) \/ p + b[p] > Len(b) THEN Err("eof")
    ELSE LET rest == ReadWitnesses(b, p + 1 + b[p], n - 1)
         IN  IF ~rest.ok THEN rest
             ELSE Ok([ws |-> <<SubSeq(b, p + 1, p + b[p])>> \o rest.val.ws,
                      next |-> rest.val.next])

\* encode::deserialize::<Transaction>(bytes): every byte must be consumed
consensus_deserialize(b) ==
    IF Len(b) < 2 THEN Err("eof")
    ELSE IF b[2] # 0
    THEN \* no marker: version, inputs, outputs, lock_time
         LET nin  == b[2]
             pout == 3 + nin
         IN  IF pout > Len(b) THEN Err("eof")
             ELSE LET nout == b[pout]
                      plt  == pout + 1 + nout
                  IN  IF plt > Len(b) THEN Err("eof")
                      ELSE IF plt < Len(b) THEN Err("data not consumed entirely")
                      ELSE Ok(Tx(b[1],
                                 [i \in 1..nin |-> TxIn(b[2 + i], <<>>)],
                                 SubSeq(b, pout + 1, pout + nout),
                                 b[plt]))
    ELSE \* empty input vector: the segwit marker, then the flag
         IF Len(b) < 4 THEN Err("eof")
         ELSE IF b[3] # 1 THEN Err("unsupported segwit flag")
         ELSE LET nin  == b[4]
                  pout == 5 + nin
              IN  IF pout > Len(b) THEN Err("eof")
                  ELSE LET nout == b[pout]
                           pw   == pout + 1 + nout
                           w    == ReadWitnesses(b, pw, nin)
                       IN  IF pw > Len(b) + 1 THEN Err("eof")
                           ELSE IF ~w.ok THEN Err("eof")
                           ELSE IF nin > 0 /\ \A i \in 1..nin : w.val.ws[i] = <<>>
                           THEN Err("witness flag set but no witnesses present")
                           ELSE IF w.val.next > Len(b) THEN Err("eof")
                           ELSE IF w.val.next < Len(b) THEN Err("data not consumed entirely")
                           ELSE Ok(Tx(b[1],
                                      [i \in 1..nin |-> TxIn(b[4 + i], w.val.ws[i])],
                                      SubSeq(b, pout + 1, pout + nout),
                                      b[w.val.next]))

(***************************************************************************)
(* BTreeMap<PublicKey, Signature>: the entries [k, v] in ascending key     *)
(* order, one per key.                                                     *)
(***************************************************************************)
BTreeMap_new == <<>>

\* MUTANT of BTreeMap_insert: an insertion-ordered map (a Vec of pairs, an
\* IndexMap) in place of the BTreeMap: a new key goes to the end
RECURSIVE BTreeMap_insert_Unordered(_, _, _)
BTreeMap_insert_Unordered(map, k, v) ==
    IF map = <<>> THEN <<[k |-> k, v |-> v]>>
    ELSE IF Head(map).k = k THEN <<[k |-> k, v |-> v]>> \o Tail(map)
    ELSE <<Head(map)>> \o BTreeMap_insert_Unordered(Tail(map), k, v)

\* BTreeMap::insert: replaces the value of a key already present, otherwise
\* places the entry at its position in key order
RECURSIVE BTreeMap_insert(_, _, _)
BTreeMap_insert(map, k, v) ==
    IF map = <<>> THEN <<[k |-> k, v |-> v]>>
    ELSE IF Head(map).k = k THEN <<[k |-> k, v |-> v]>> \o Tail(map)
    ELSE IF BytesLess(k, Head(map).k) THEN <<[k |-> k, v |-> v]>> \o map
    ELSE <<Head(map)>> \o BTreeMap_insert(Tail(map), k, v)

\* the map a sequence of insertions builds (collect() into a BTreeMap)
RECURSIVE BTreeMap_collect(_)
BTreeMap_collect(pairs) ==
    IF pairs = <<>> THEN BTreeMap_new
    ELSE BTreeMap_insert(BTreeMap_collect(SubSeq(pairs, 1, Len(pairs) - 1)),
                         pairs[Len(pairs)].k, pairs[Len(pairs)].v)

(***************************************************************************)
(* Serialize: the text each value is emitted as (serde derive; fields in   *)
(* declaration order, nothing omitted).                                    *)
(***************************************************************************)
\* MUTANT of Ser_u32: the id declared i32, so that the upper half of the u32
\* range is emitted as a negative number
Ser_u32_Signed(n) ==
    IF n.hi < 32768 THEN JNum(U32ToDecimal(n))
    ELSE JNum(<<"-">> \o U32ToDecimal(IF n.lo = 0 THEN U32(65536 - n.hi, 0)
                                       ELSE U32(65535 - n.hi, 65536 - n.lo)))

Ser_u32(n) == JNum(U32ToDecimal(n))
Ser_PublicKey(k) == JStr(PublicKey_to_str(k))
Ser_Signature(sig) == JStr(Signature_to_str(sig))
Ser_Txid(txid) == JStr(Txid_to_str(txid))
Ser_OutPoint(o) == JStr(OutPoint_to_str(o))

\* a map is emitted as an object, entry by entry in the map's iteration order
Ser_SigMap(map) ==
    JObj([i \in 1..Len(map) |->
            [k |-> PublicKey_to_str(map[i].k), x |-> Ser_Signature(map[i].v)]])

\* serde_tx_hex::serialize
serde_tx_hex_serialize(tx) == JStr(ToHex(consensus_serialize(tx)))

Ser_watchtower_Sig(p) ==
    JObj(<<Mem("signatures", Ser_SigMap(p.signatures)),
           Mem("txid", Ser_Txid(p.txid)),
           Mem("deposit_outpoint", Ser_OutPoint(p.deposit_outpoint))>>)

Ser_watchtower_SigResult(r) ==
    JObj(<<Mem("ack", JBool(r.ack)), Mem("txid", Ser_Txid(r.txid))>>)

Ser_GetSigs(p) == JObj(<<Mem("id", Ser_Txid(p.id))>>)

\* MUTANT of Ser_Sigs: #[serde(skip_serializing_if = "BTreeMap::is_empty")] on
\* the field, so that an empty map is omitted from the text
Ser_Sigs_SkipEmpty(r) ==
    IF r.signatures = <<>> THEN JObj(<<>>)
    ELSE JObj(<<Mem("signatures", Ser_SigMap(r.signatures))>>)

Ser_Sigs(r) == JObj(<<Mem("signatures", Ser_SigMap(r.signatures))>>)

Ser_SetSpendTx(p) ==
    JObj(<<Mem("deposit_outpoints",
               JArr([i \in 1..Len(p.deposit_outpoints) |->
                        Ser_OutPoint(p.deposit_outpoints[i])])),
           Mem("transaction", serde_tx_hex_serialize(p.transaction))>>)

Ser_SetSpendResult(r) == JObj(<<Mem("ack", JBool(r.ack))>>)

Ser_GetSpendTx(p) == JObj(<<Mem("deposit_outpoint", Ser_OutPoint(p.deposit_outpoint))>>)

Ser_SpendTx(r) == JObj(<<Mem("transaction", serde_tx_hex_serialize(r.transaction))>>)

Ser_coordinator_Sig(p) ==
    JObj(<<Mem("pubkey", Ser_PublicKey(p.pubkey)),
           Mem("signature", Ser_Signature(p.signature)),
           Mem("id", Ser_Txid(p.id))>>)

Ser_coordinator_SigResult(r) == JObj(<<Mem("ack", JBool(r.ack))>>)

Ser_SignRequest(p) == JObj(<<Mem("tx", serde_tx_hex_serialize(p.tx))>>)

Ser_SignResult(r) ==
    JObj(<<Mem("signatures",
               JArr([i \in 1..Len(r.signatures) |-> Ser_Signature(r.signatures[i])]))>>)

\* an untagged union is emitted as the content of its variant, with no tag
Ser_params(variant, p) ==
    CASE variant = "WtSig"      -> Ser_watchtower_Sig(p)
      [] variant = "SetSpendTx" -> Ser_SetSpendTx(p)
      [] variant = "GetSpendTx" -> Ser_GetSpendTx(p)
      [] variant = "CoordSig"   -> Ser_coordinator_Sig(p)
      [] variant = "GetSigs"    -> Ser_GetSigs(p)
      [] variant = "Sign"       -> Ser_SignRequest(p)

\* MUTANT of Ser_Request: the id field declared first in the variants
Ser_Request_IdFirst(r) ==
    JObj(<<Mem("id", Ser_u32(r.id)),
           Mem("method", JStr(<<r.method>>)),
           Mem("params", Ser_params(r.variant, r.params))>>)

\* Request: every variant is {method, params, id}, in that order
Ser_Request(r) ==
    JObj(<<Mem("method", JStr(<<r.method>>)),
           Mem("params", Ser_params(r.variant, r.params)),
           Mem("id", Ser_u32(r.id))>>)

Ser_RequestParams(p) == Ser_params(p.variant, p.val)

Ser_ResponseResult(r) ==
    CASE r.variant = "WtSig"      -> Ser_watchtower_SigResult(r.val)
      [] r.variant = "Sigs"       -> Ser_Sigs(r.val)
      [] r.variant = "Sig"        -> Ser_coordinator_SigResult(r.val)
      [] r.variant = "SetSpend"   -> Ser_SetSpendResult(r.val)
      [] r.variant = "SpendTx"    -> Ser_SpendTx(r.val)
      [] r.variant = "SignResult" -> Ser_SignResult(r.val)

\* Response<ResponseResult>: {result, id}, in that order
Ser_Response(r) ==
    JObj(<<Mem("result", Ser_ResponseResult(r.result)), Mem("id", Ser_u32(r.id))>>)

(***************************************************************************)
(* Deserialize: Ok(value) or Err(why).                                     *)
(***************************************************************************)
De_u32(j) == IF j.t = "num" THEN U32FromDecimal(j.s) ELSE Err("invalid type")
De_bool(j) == IF j.t = "bool" THEN Ok(j.s = <<"true">>) ELSE Err("invalid type")
\* &'a str / String: a JSON string (the model's strings are one token long
\* where they are names)
De_str(j) == IF j.t = "str" /\ Len(j.s) = 1 THEN Ok(j.s[1]) ELSE Err("invalid type")
De_PublicKey(j) == IF j.t = "str" THEN PublicKey_from_str(j.s) ELSE Err("invalid type")
De_Signature(j) == IF j.t = "str" THEN Signature_from_str(j.s) ELSE Err("invalid type")
De_Txid(j) == IF j.t = "str" THEN Txid_from_str(j.s) ELSE Err("invalid type")
De_OutPoint(j) == IF j.t = "str" THEN OutPoint_from_str(j.s) ELSE Err("invalid type")

\* BTreeMap<PublicKey, Signature>: a JSON object whose every key is a public
\* key and every value a signature; the entries are inserted in textual
\* order, so a repeated key keeps its last value
De_SigMap(j) ==
    IF j.t # "obj" THEN Err("invalid type")
    ELSE IF \E i \in 1..Len(j.m) :
               ~PublicKey_from_str(j.m[i].k).ok \/ ~De_Signature(j.m[i].x).ok
    THEN Err("invalid entry")
    ELSE Ok(BTreeMap_collect([i \in 1..Len(j.m) |->
                [k |-> PublicKey_from_str(j.m[i].k).val,
                 v |-> De_Signature(j.m[i].x).val]]))

\* Vec<OutPoint>, Vec<Signature>: a JSON array of elements that all decode
De_VecOutPoint(j) ==
    IF j.t # "arr" THEN Err("invalid type")
    ELSE IF \E i \in 1..Len(j.m) : ~De_OutPoint(j.m[i].x).ok THEN Err("invalid element")
    ELSE Ok([i \in 1..Len(j.m) |-> De_OutPoint(j.m[i].x).val])

De_VecSignature(j) ==
    IF j.t # "arr" THEN Err("invalid type")
    ELSE IF \E i \in 1..Len(j.m) : ~De_Signature(j.m[i].x).ok THEN Err("invalid element")
    ELSE Ok([i \in 1..Len(j.m) |-> De_Signature(j.m[i].x).val])

\* serde_tx_hex::deserialize: a string, of hex digits, of a transaction
serde_tx_hex_deserialize(j) ==
    IF j.t # "str" THEN Err("invalid type")
    ELSE LET bytes == FromHex(j.s)
         IN  IF ~bytes.ok THEN Err(bytes.val)
             ELSE consensus_deserialize(bytes.val)

\* The derived struct visitor.  From an object: every named field exactly
\* once (a repeated field is an error, a missing one too), members of any
\* other name skipped, in any order.  From an array: the fields by position,
\* no more and no fewer.  Ok(f) gives the text of each field.
FieldIdx(j, name) == {i \in 1..Len(j.m) : j.m[i].k = <<name>>}

\* MUTANT of GetFields: #[serde(deny_unknown_fields)] on the structs, so that an
\* object with a member of another name is refused
GetFields_DenyUnknown(j, names) ==
    IF j.t = "obj"
    THEN IF /\ \A n \in 1..Len(names) : Cardinality(FieldIdx(j, names[n])) = 1
            /\ \A i \in 1..Len(j.m) : \E n \in 1..Len(names) : j.m[i].k = <<names[n]>>
         THEN Ok([name \in Range(names) |->
                    j.m[CHOOSE i \in FieldIdx(j, name) : TRUE].x])
         ELSE Err("missing, duplicate or unknown field")
    ELSE IF j.t = "arr"
    THEN IF Len(j.m) = Len(names)
         THEN Ok([name \in Range(names) |->
                    j.m[CHOOSE i \in 1..Len(names) : names[i] = name].x])
         ELSE Err("invalid length")
    ELSE Err("invalid type")

GetFields(j, names) ==
    IF j.t = "obj"
    THEN IF \A n \in 1..Len(names) : Cardinality(FieldIdx(j, names[n])) = 1
         THEN Ok([name \in Range(names) |->
                    j.m[CHOOSE i \in FieldIdx(j, name) : TRUE].x])
         ELSE Err("missing or duplicate field")
    ELSE IF j.t = "arr"
    THEN IF Len(j.m) = Len(names)
         THEN Ok([name \in Range(names) |->
                    j.m[CHOOSE i \in 1..Len(names) : names[i] = name].x])
         ELSE Err("invalid length")
    ELSE Err("invalid type")

\* the fields of each parameter record and of each result record, in
\* declaration order
ParamFields(variant) ==
    CASE variant = "WtSig"      -> <<"signatures", "txid", "deposit_outpoint">>
      [] variant = "SetSpendTx" -> <<"deposit_outpoints", "transaction">>
      [] variant = "GetSpendTx" -> <<"deposit_outpoint">>
      [] variant = "CoordSig"   -> <<"pubkey", "signature", "id">>
      [] variant = "GetSigs"    -> <<"id">>
      [] variant = "Sign"       -> <<"tx">>

\* the type of each field of each parameter record, in declaration order
ParamTypes(variant) ==
    CASE variant = "WtSig"      -> <<"BTreeMap<PublicKey, Signature>", "Txid", "OutPoint">>
      [] variant = "SetSpendTx" -> <<"Vec<OutPoint>", "Transaction">>
      [] variant = "GetSpendTx" -> <<"OutPoint">>
      [] variant = "CoordSig"   -> <<"PublicKey", "Signature", "Txid">>
      [] variant = "GetSigs"    -> <<"Txid">>
      [] variant = "Sign"       -> <<"Transaction">>

ResultFields(variant) ==
    CASE variant = "WtSig"      -> <<"ack", "txid">>
      [] variant = "Sigs"       -> <<"signatures">>
      [] variant = "Sig"        -> <<"ack">>
      [] variant = "SetSpend"   -> <<"ack">>
      [] variant = "SpendTx"    -> <<"transaction">>
      [] variant = "SignResult" -> <<"signatures">>

De_watchtower_Sig(j) ==
    LET f == GetFields(j, ParamFields("WtSig"))
    IN  IF ~f.ok THEN f
        ELSE LET a == De_SigMap(f.val.signatures)
                 b == De_Txid(f.val.txid)
                 c == De_OutPoint(f.val.deposit_outpoint)
             IN  IF a.ok /\ b.ok /\ c.ok
                 THEN Ok([signatures |-> a.val, txid |-> b.val, deposit_outpoint |-> c.val])
                 ELSE Err("invalid field")

De_watchtower_SigResult(j) ==
    LET f == GetFields(j, ResultFields("WtSig"))
    IN  IF ~f.ok THEN f
        ELSE LET a == De_bool(f.val.ack)
                 b == De_Txid(f.val.txid)
             IN  IF a.ok /\ b.ok THEN Ok([ack |-> a.val, txid |-> b.val])
                 ELSE Err("invalid field")

De_GetSigs(j) ==
    LET f == GetFields(j, ParamFields("GetSigs"))
    IN  IF ~f.ok THEN f
        ELSE LET a == De_Txid(f.val.id)
             IN  IF a.ok THEN Ok([id |-> a.val]) ELSE Err("invalid field")

De_Sigs(j) ==
    LET f == GetFields(j, ResultFields("Sigs"))
    IN  IF ~f.ok THEN f
        ELSE LET a == De_SigMap(f.val.signatures)
             IN  IF a.ok THEN Ok([signatures |-> a.val]) ELSE Err("invalid field")

De_SetSpendTx(j) ==
    LET f == GetFields(j, ParamFields("SetSpendTx"))
    IN  IF ~f.ok THEN f
        ELSE LET a == De_VecOutPoint(f.val.deposit_outpoints)
                 b == serde_tx_hex_deserialize(f.val.transaction)
             IN  IF a.ok /\ b.ok THEN Ok([deposit_outpoints |-> a.val, transaction |-> b.val])
                 ELSE Err("invalid field")

De_SetSpendResult(j) ==
    LET f == GetFields(j, ResultFields("SetSpend"))
    IN  IF ~f.ok THEN f
        ELSE LET a == De_bool(f.val.ack)
             IN  IF a.ok THEN Ok([ack |-> a.val]) ELSE Err("invalid field")

De_GetSpendTx(j) ==
    LET f == GetFields(j, ParamFields("GetSpendTx"))
    IN  IF ~f.ok THEN f
        ELSE LET a == De_OutPoint(f.val.deposit_outpoint)
             IN  IF a.ok THEN Ok([deposit_outpoint |-> a.val]) ELSE Err("invalid field")

De_SpendTx(j) ==
    LET f == GetFields(j, ResultFields("SpendTx"))
    IN  IF ~f.ok THEN f
        ELSE LET a == serde_tx_hex_deserialize(f.val.transaction)
             IN  IF a.ok THEN Ok([transaction |-> a.val]) ELSE Err("invalid field")

De_coordinator_Sig(j) ==
    LET f == GetFields(j, ParamFields("CoordSig"))
    IN  IF ~f.ok THEN f
        ELSE LET a == De_PublicKey(f.val.pubkey)
                 b == De_Signature(f.val.signature)
                 c == De_Txid(f.val.id)
             IN  IF a.ok /\ b.ok /\ c.ok
                 THEN Ok([pubkey |-> a.val, signature |-> b.val, id |-> c.val])
                 ELSE Err("invalid field")

De_coordinator_SigResult(j) ==
    LET f == GetFields(j, ResultFields("Sig"))
    IN  IF ~f.ok THEN f
        ELSE LET a == De_bool(f.val.ack)
             IN  IF a.ok THEN Ok([ack |-> a.val]) ELSE Err("invalid field")

De_SignRequest(j) ==
    LET f == GetFields(j, ParamFields("Sign"))
    IN  IF ~f.ok THEN f
        ELSE LET a == serde_tx_hex_deserialize(f.val.tx)
             IN  IF a.ok THEN Ok([tx |-> a.val]) ELSE Err("invalid field")

De_SignResult(j) ==
    LET f == GetFields(j, ResultFields("SignResult"))
    IN  IF ~f.ok THEN f
        ELSE LET a == De_VecSignature(f.val.signatures)
             IN  IF a.ok THEN Ok([signatures |-> a.val]) ELSE Err("invalid field")

(***************************************************************************)
(* The untagged unions: the variants are tried in declaration order and    *)
(* the first that deserializes is the result.                              *)
(***************************************************************************)
\* MUTANT of RequestVariants: GetSigs declared before CoordSig
RequestVariants_GetSigsFirst ==
    <<"WtSig", "SetSpendTx", "GetSpendTx", "GetSigs", "CoordSig", "Sign">>

RequestVariants == <<"WtSig", "SetSpendTx", "GetSpendTx", "CoordSig", "GetSigs", "Sign">>

\* MUTANT of ResponseResultVariants: the coordinator's SigResult declared first
ResponseResultVariants_AckOnlyFirst ==
    <<"Sig", "WtSig", "Sigs", "SetSpend", "SpendTx", "SignResult">>

ResponseResultVariants == <<"WtSig", "Sigs", "Sig", "SetSpend", "SpendTx", "SignResult">>

De_params(variant, j) ==
    CASE variant = "WtSig"      -> De_watchtower_Sig(j)
      [] variant = "SetSpendTx" -> De_SetSpendTx(j)
      [] variant = "GetSpendTx" -> De_GetSpendTx(j)
      [] variant = "CoordSig"   -> De_coordinator_Sig(j)
      [] variant = "GetSigs"    -> De_GetSigs(j)
      [] variant = "Sign"       -> De_SignRequest(j)

De_result(variant, j) ==
    CASE variant = "WtSig"      -> De_watchtower_SigResult(j)
      [] variant = "Sigs"       -> De_Sigs(j)
      [] variant = "Sig"        -> De_coordinator_SigResult(j)
      [] variant = "SetSpend"   -> De_SetSpendResult(j)
      [] variant = "SpendTx"    -> De_SpendTx(j)
      [] variant = "SignResult" -> De_SignResult(j)

\* one struct variant of Request: {method: &str, params: <variant's>, id: u32}
De_Request_variant(variant, j) ==
    LET f == GetFields(j, <<"method", "params", "id">>)
    IN  IF ~f.ok THEN f
        ELSE LET m == De_str(f.val.method)
                 p == De_params(variant, f.val.params)
                 i == De_u32(f.val.id)
             IN  IF m.ok /\ p.ok /\ i.ok
                 THEN Ok([variant |-> variant, method |-> m.val,
                          params |-> p.val, id |-> i.val])
                 ELSE Err("invalid field")

RECURSIVE De_Request_from(_, _)
De_Request_from(n, j) ==
    IF n > Len(RequestVariants)
    THEN Err("data did not match any variant of untagged enum Request")
    ELSE LET r == De_Request_variant(RequestVariants[n], j)
         IN  IF r.ok THEN r ELSE De_Request_from(n + 1, j)

\* serde_json::from_str::<Request>
De_Request(j) == De_Request_from(1, j)

RECURSIVE De_RequestParams_from(_, _)
De_RequestParams_from(n, j) ==
    IF n > Len(RequestVariants)
    THEN Err("data did not match any variant of untagged enum RequestParams")
    ELSE LET r == De_params(RequestVariants[n], j)
         IN  IF r.ok THEN Ok([variant |-> RequestVariants[n], val |-> r.val])
             ELSE De_RequestParams_from(n + 1, j)

\* serde_json::from_str::<RequestParams>
De_RequestParams(j) == De_RequestParams_from(1, j)

RECURSIVE De_ResponseResult_from(_, _)
De_ResponseResult_from(n, j) ==
    IF n > Len(ResponseResultVariants)
    THEN Err("data did not match any variant of untagged enum ResponseResult")
    ELSE LET r == De_result(ResponseResultVariants[n], j)
         IN  IF r.ok THEN Ok([variant |-> ResponseResultVariants[n], val |-> r.val])
             ELSE De_ResponseResult_from(n + 1, j)

De_ResponseResult(j) == De_ResponseResult_from(1, j)

\* serde_json::from_str::<Response<ResponseResult>>
De_Response(j) ==
    LET f == GetFields(j, <<"result", "id">>)
    IN  IF ~f.ok THEN f
        ELSE LET r == De_ResponseResult(f.val.result)
                 i == De_u32(f.val.id)
             IN  IF r.ok /\ i.ok THEN Ok([result |-> r.val, id |-> i.val])
                 ELSE Err("invalid field")

(***************************************************************************)
(* The operations of the message layer.                                    *)
(***************************************************************************)
\* the ids the model draws from: a sample of the u32 range with both ends
U32Samples == {U32(0, 0), U32(0, 1946), U32(15, 5324), U32(65535, 65534), U32_MAX}

\* the ids the tests set explicitly
ExplicitIds == {U32(0, 1946), U32_MAX}

\* sodiumoxide::randombytes::randombytes_uniform(upper_bound): a value of
\* [0, upper_bound), upper_bound excluded
randombytes_uniform(upper_bound) == {n \in U32Samples : U32Less(n, upper_bound)}

\* MUTANT of MethodName: impl_to_request!(GetSpendTx, "get_sigs", GetSpendTx),
\* an invocation copied from the one of GetSigs with its literal left as it was
MethodName_CopyPaste(variant) ==
    CASE variant = "WtSig"      -> "sig"
      [] variant = "GetSigs"    -> "get_sigs"
      [] variant = "SetSpendTx" -> "set_spend_tx"
      [] variant = "GetSpendTx" -> "get_sigs"
      [] variant = "CoordSig"   -> "sig"
      [] variant = "Sign"       -> "sign"

\* the $message_name literal of each impl_to_request! invocation
MethodName(variant) ==
    CASE variant = "WtSig"      -> "sig"
      [] variant = "GetSigs"    -> "get_sigs"
      [] variant = "SetSpendTx" -> "set_spend_tx"
      [] variant = "GetSpendTx" -> "get_spend_tx"
      [] variant = "CoordSig"   -> "sig"
      [] variant = "Sign"       -> "sign"

\* impl_to_request!: From<$message_struct> for Request; the set of Requests
\* the conversion can return for one parameter record
impl_to_request(variant, params) ==
    {[variant |-> variant, method |-> MethodName(variant), params |-> params, id |-> i] :
        i \in randombytes_uniform(U32_MAX)}

\* Request::params: the record without its method and id
Request_params(r) ==
    CASE r.variant = "WtSig"      -> [variant |-> "WtSig", val |-> r.params]
      [] r.variant = "SetSpendTx" -> [variant |-> "SetSpendTx", val |-> r.params]
      [] r.variant = "GetSpendTx" -> [variant |-> "GetSpendTx", val |-> r.params]
      [] r.variant = "CoordSig"   -> [variant |-> "CoordSig", val |-> r.params]
      [] r.variant = "GetSigs"    -> [variant |-> "GetSigs", val |-> r.params]
      [] r.variant = "Sign"       -> [variant |-> "Sign", val |-> r.params]

\* Request::id
Request_id(r) ==
    CASE r.variant = "WtSig"      -> r.id
      [] r.variant = "SetSpendTx" -> r.id
      [] r.variant = "GetSpendTx" -> r.id
      [] r.variant = "CoordSig"   -> r.id
      [] r.variant = "GetSigs"    -> r.id
      [] r.variant = "Sign"       -> r.id

\* A SpendTransaction is a PSBT: the unsigned transaction and, per input,
\* the final witness once the input is finalized.
None == [some |-> FALSE, w |-> <<>>]
Some(w) == [some |-> TRUE, w |-> w]
SpendTransaction(tx, finals) == [unsigned_tx |-> tx, final_script_witness |-> finals]

\* RevaultTransaction::is_finalized
is_finalized(stx) ==
    \A i \in 1..Len(stx.final_script_witness) : stx.final_script_witness[i].some

\* into_psbt().extract_tx(): the unsigned transaction with each input's final
\* witness put in (none: an empty witness)
extract_tx(stx) ==
    [stx.unsigned_tx EXCEPT !.input =
        [i \in 1..Len(stx.unsigned_tx.input) |->
            TxIn(stx.unsigned_tx.input[i].prev, stx.final_script_witness[i].w)]]

\* MUTANT of from_spend_tx: the assertion left out
from_spend_tx_NoAssert(deposit_outpoints, tx) ==
    Ok([deposit_outpoints |-> deposit_outpoints, transaction |-> extract_tx(tx)])

\* SetSpendTx::from_spend_tx: assert!(tx.is_finalized()) panics, and nothing is
\* returned; otherwise the record of the outpoints and the extracted transaction
from_spend_tx(deposit_outpoints, tx) ==
    IF ~is_finalized(tx) THEN Err("panic: assertion failed: tx.is_finalized()")
    ELSE Ok([deposit_outpoints |-> deposit_outpoints, transaction |-> extract_tx(tx)])

\* SetSpendTx::spend_tx
spend_tx(p) == p.transaction

(***************************************************************************)
(* The values the model runs on.                                           *)
(***************************************************************************)
PublicKeys == {<<3, 91>>, <<2, 171>>}
Signatures == {<<48, 69>>, <<48, 68>>}
Txids == {<<0, 0>>, <<54, 148>>}
OutPoints == {[txid |-> <<54, 148>>, vout |-> U32(0, 0)],
              [txid |-> <<0, 0>>, vout |-> U32(0, 1)]}
SigMaps == {BTreeMap_new,
            BTreeMap_collect(<<[k |-> <<3, 91>>, v |-> <<48, 69>>]>>),
            BTreeMap_collect(<<[k |-> <<3, 91>>, v |-> <<48, 69>>],
                               [k |-> <<2, 171>>, v |-> <<48, 68>>]>>)}
SigLists == {<<>>, <<<<48, 68>>>>, <<<<48, 69>>, <<48, 68>>>>}
OutPointLists == {<<>>, <<[txid |-> <<54, 148>>, vout |-> U32(0, 0)]>>}

UnsignedTx == Tx(2, <<TxIn(142, <<>>)>>, <<128, 1>>, 0)
Transactions == {UnsignedTx,
                 Tx(2, <<TxIn(42, <<5, 71>>), TxIn(58, <<>>)>>, <<111>>, 9),
                 Tx(2, <<>>, <<7>>, 0),
                 Tx(1, <<>>, <<>>, 0)}
SpendTransactions ==
    {SpendTransaction(UnsignedTx, <<Some(<<5, 71>>)>>),
     SpendTransaction(UnsignedTx, <<None>>),
     SpendTransaction(Tx(2, <<TxIn(42, <<>>), TxIn(58, <<>>)>>, <<111>>, 0),
                      <<Some(<<72>>), Some(<<71, 171>>)>>)}

\* what a peer may put into a params or result object
TamperMembers ==
    {Mem("extra", JBool(TRUE)),
     Mem("ack", JBool(FALSE)),
     Mem("id", Ser_Txid(<<0, 0>>)),
     Mem("txid", Ser_Txid(<<54, 148>>)),
     Mem("deposit_outpoint", Ser_OutPoint([txid |-> <<0, 0>>, vout |-> U32(0, 1)])),
     Mem("signatures", JArr(<<>>)),
     Mem("transaction", JStr(<<"z", "z">>)),
     Mem("transaction", serde_tx_hex_serialize(UnsignedTx)),
     Mem("tx", JStr(ToHex(<<2, 1>>)))}
TamperMethods == {"sig", "sign", "foo"}
TamperIds == {JNum(<<"4", "2", "9", "4", "9", "6", "7", "2", "9", "6">>),
              JNum(<<"-", "1">>),
              JStr(<<"0">>)}

(***************************************************************************)
(* State.                                                                  *)
(*   held    what the local caller holds: nothing, a parameter record (as  *)
(*           a RequestParams), a Request, a Response, or nothing after a   *)
(*           panic; `origin` says how it was obtained                      *)
(*   wire    the text in flight (NoText: none)                             *)
(*   intact  the text is what the encoder emitted for `held`, untouched    *)
(*   tampers how many times texts were tampered with                       *)
(*   got     the outcome of the last decode and the type decoded as: the   *)
(*           receiver decodes a text as the type of message it expects     *)
(*   obs     the last call observed: the return value of an accessor, the  *)
(*           arguments of from_spend_tx                                    *)
(*   mapA, mapB  two key/signature maps under construction, each with the  *)
(*           insertions made so far                                        *)
(***************************************************************************)
VARIABLES held, wire, intact, tampers, got, obs, mapA, mapB

vars == <<held, wire, intact, tampers, got, obs, mapA, mapB>>

NoText == [t |-> "none", s |-> <<>>, m |-> <<>>]
Nothing == [kind |-> "none", origin |-> "none", val |-> <<>>]
NoResult == [as |-> "none", res |-> Err("none")]
NoObs == [op |-> "none", val |-> <<>>]
Holding(kind, origin, val) == [kind |-> kind, origin |-> origin, val |-> val]

Init ==
    /\ held = Nothing
    /\ wire = NoText
    /\ intact = FALSE
    /\ tampers = 0
    /\ got = NoResult
    /\ obs = NoObs
    /\ mapA = [map |-> BTreeMap_new, ins |-> <<>>]
    /\ mapB = [map |-> BTreeMap_new, ins |-> <<>>]

\* a value is constructed: the text and the decode of the previous one are gone
Fresh(h) ==
    /\ held' = h
    /\ wire' = NoText
    /\ intact' = FALSE
    /\ got' = NoResult
    /\ obs' = NoObs
    /\ UNCHANGED <<tampers, mapA, mapB>>

\* the caller writes a parameter record as a struct literal (one message is
\* followed from its construction on: a value is constructed by a caller
\* that holds none)
NewParams ==
    /\ held.kind = "none"
    /\ \/ \E m \in SigMaps, t \in Txids, o \in OutPoints :
             Fresh(Holding("params", "literal",
                   [variant |-> "WtSig",
                    val |-> [signatures |-> m, txid |-> t, deposit_outpoint |-> o]]))
       \/ \E o \in OutPoints :
             Fresh(Holding("params", "literal",
                   [variant |-> "GetSpendTx", val |-> [deposit_outpoint |-> o]]))
       \/ \E k \in PublicKeys, sig \in Signatures, t \in Txids :
             Fresh(Holding("params", "literal",
                   [variant |-> "CoordSig",
                    val |-> [pubkey |-> k, signature |-> sig, id |-> t]]))
       \/ \E t \in Txids :
             Fresh(Holding("params", "literal", [variant |-> "GetSigs", val |-> [id |-> t]]))
       \/ \E tx \in Transactions :
             Fresh(Holding("params", "literal", [variant |-> "Sign", val |-> [tx |-> tx]]))

\* SetSpendTx::from_spend_tx(deposit_outpoints, tx)
FromSpendTx ==
    /\ held.kind = "none"
    /\ \E o \in OutPointLists, tx \in SpendTransactions :
          LET r == from_spend_tx(o, tx)
          IN  /\ held' = IF r.ok
                         THEN Holding("params", "from_spend_tx",
                                      [variant |-> "SetSpendTx", val |-> r.val])
                         ELSE Holding("panicked", "from_spend_tx", <<>>)
              /\ obs' = [op |-> "from_spend_tx",
                         val |-> [deposit_outpoints |-> o, tx |-> tx]]
              /\ wire' = NoText
              /\ intact' = FALSE
              /\ got' = NoResult
              /\ UNCHANGED <<tampers, mapA, mapB>>

\* Request::from(params)
From ==
    /\ held.kind = "params"
    /\ \E r \in impl_to_request(held.val.variant, held.val.val) :
          Fresh(Holding("request", "from", r))

\* the caller sets the id of the Request it holds (the fields are public)
SetId ==
    /\ held.kind = "request"
    /\ held.origin = "from"
    /\ \E i \in ExplicitIds :
          Fresh(Holding("request", "from_then_id", [held.val EXCEPT !.id = i]))

\* the caller writes a Response as a struct literal
NewResponse ==
    /\ held.kind = "none"
    /\ \E i \in U32Samples :
          \/ \E a \in BOOLEAN, t \in Txids :
                Fresh(Holding("response", "literal",
                      [result |-> [variant |-> "WtSig", val |-> [ack |-> a, txid |-> t]],
                       id |-> i]))
          \/ \E m \in SigMaps :
                Fresh(Holding("response", "literal",
                      [result |-> [variant |-> "Sigs", val |-> [signatures |-> m]], id |-> i]))
          \/ \E a \in BOOLEAN :
                Fresh(Holding("response", "literal",
                      [result |-> [variant |-> "Sig", val |-> [ack |-> a]], id |-> i]))
          \/ \E a \in BOOLEAN :
                Fresh(Holding("response", "literal",
                      [result |-> [variant |-> "SetSpend", val |-> [ack |-> a]], id |-> i]))
          \/ \E tx \in Transactions :
                Fresh(Holding("response", "literal",
                      [result |-> [variant |-> "SpendTx", val |-> [transaction |-> tx]],
                       id |-> i]))
          \/ \E l \in SigLists :
                Fresh(Holding("response", "literal",
                      [result |-> [variant |-> "SignResult", val |-> [signatures |-> l]],
                       id |-> i]))

\* serde_json::to_string(&held)
to_string(h) ==
    CASE h.kind = "request"  -> Ser_Request(h.val)
      [] h.kind = "response" -> Ser_Response(h.val)
      [] h.kind = "params"   -> Ser_RequestParams(h.val)

Encode ==
    /\ held.kind \in {"request", "response", "params"}
    /\ wire' = to_string(held)
    /\ intact' = TRUE
    /\ got' = NoResult
    /\ obs' = NoObs
    /\ UNCHANGED <<held, tampers, mapA, mapB>>

(***************************************************************************)
(* The peer and the transport: a text that arrives need not be one this    *)
(* encoder emitted.  A tampering step changes the params / result object,  *)
(* the method or the id of the envelope in flight.                         *)
(***************************************************************************)
\* the positions of the envelope's payload member (params or result)
PayloadIdx(j) ==
    {i \in 1..Len(j.m) : j.m[i].k \in {<<"params">>, <<"result">>} /\ j.m[i].x.t = "obj"}

Tampered(text) ==
    /\ tampers < MaxTamper
    /\ tampers' = tampers + 1
    /\ wire' = text
    /\ intact' = FALSE
    /\ got' = NoResult
    /\ obs' = NoObs
    /\ UNCHANGED <<held, mapA, mapB>>

\* a member is added at the end of the payload object
TamperAdd ==
    /\ wire.t = "obj"
    /\ \E i \in PayloadIdx(wire), mem \in TamperMembers :
          Tampered([wire EXCEPT !.m[i].x.m = Append(@, mem)])

\* the value of a member of the payload object is replaced
TamperSet ==
    /\ wire.t = "obj"
    /\ \E i \in PayloadIdx(wire), mem \in TamperMembers :
          \E q \in 1..Len(wire.m[i].x.m) :
             /\ wire.m[i].x.m[q].k = mem.k
             /\ wire.m[i].x.m[q].x # mem.x
             /\ Tampered([wire EXCEPT !.m[i].x.m[q].x = mem.x])

\* a member of the payload object is removed
TamperDrop ==
    /\ wire.t = "obj"
    /\ \E i \in PayloadIdx(wire) :
          \E q \in 1..Len(wire.m[i].x.m) :
             Tampered([wire EXCEPT !.m[i].x.m =
                          SubSeq(@, 1, q - 1) \o SubSeq(@, q + 1, Len(@))])

\* the method string is replaced
TamperMethod ==
    /\ wire.t = "obj"
    /\ \E i \in 1..Len(wire.m), name \in TamperMethods :
          /\ wire.m[i].k = <<"method">>
          /\ wire.m[i].x # JStr(<<name>>)
          /\ Tampered([wire EXCEPT !.m[i].x = JStr(<<name>>)])

\* the id is replaced by something that is no u32
TamperId ==
    /\ wire.t = "obj"
    /\ \E i \in 1..Len(wire.m), v \in TamperIds :
          /\ wire.m[i].k = <<"id">>
          /\ Tampered([wire EXCEPT !.m[i].x = v])

\* the orders in which n members can be written
Orders(n) == {p \in [1..n -> 1..n] : \A a, b \in 1..n : a # b => p[a] # p[b]}

\* the members of the envelope that was emitted arrive in another order
TamperOrder ==
    /\ wire.t = "obj"
    /\ intact
    /\ held.kind \in {"request", "response"}
    /\ \E p \in Orders(Len(wire.m)) :
          /\ \E a \in 1..Len(wire.m) : p[a] # a
          /\ Tampered([wire EXCEPT !.m = [a \in 1..Len(wire.m) |-> wire.m[p[a]]]])

(***************************************************************************)
(* Decoding, and what the receiver does with the value.                    *)
(***************************************************************************)
Decoded(type, res) ==
    /\ got' = [as |-> type, res |-> res]
    /\ obs' = NoObs
    /\ UNCHANGED <<held, wire, intact, tampers, mapA, mapB>>

\* serde_json::from_str::<Request>(&wire)
DecodeRequest ==
    /\ wire.t = "obj"
    /\ held.kind = "request"
    /\ Decoded("Request", De_Request(wire))

\* serde_json::from_str::<Response<ResponseResult>>(&wire)
DecodeResponse ==
    /\ wire.t = "obj"
    /\ held.kind = "response"
    /\ Decoded("Response", De_Response(wire))

\* serde_json::from_str::<RequestParams>(&wire)
DecodeParams ==
    /\ wire.t = "obj"
    /\ held.kind = "params"
    /\ Decoded("RequestParams", De_RequestParams(wire))

\* the receiver keeps the decoded value as its own
Adopt ==
    /\ got.res.ok
    /\ held.origin # "decoded"
    /\ Fresh(Holding(CASE got.as = "Request" -> "request"
                       [] got.as = "Response" -> "response"
                       [] got.as = "RequestParams" -> "params",
                     "decoded", got.res.val))

\* req.id()
CallId ==
    /\ held.kind = "request"
    /\ wire = NoText
    /\ obs = NoObs
    /\ obs' = [op |-> "id", val |-> Request_id(held.val)]
    /\ UNCHANGED <<held, wire, intact, tampers, got, mapA, mapB>>

\* req.params(), which consumes the Request
CallParams ==
    /\ held.kind = "request"
    /\ held.origin # "from_then_id"
    /\ Fresh(Holding("params", "params", Request_params(held.val)))

\* msg.spend_tx(), which consumes the SetSpendTx
CallSpendTx ==
    /\ held.kind = "params"
    /\ held.val.variant = "SetSpendTx"
    /\ held' = Nothing
    /\ obs' = [op |-> "spend_tx", val |-> spend_tx(held.val.val)]
    /\ wire' = NoText
    /\ intact' = FALSE
    /\ got' = NoResult
    /\ UNCHANGED <<tampers, mapA, mapB>>

(***************************************************************************)
(* Building key/signature maps by insertion.                               *)
(***************************************************************************)
InsertA ==
    /\ Len(mapA.ins) < MaxInserts
    /\ \E k \in PublicKeys, v \in Signatures :
          mapA' = [map |-> BTreeMap_insert(mapA.map, k, v),
                   ins |-> Append(mapA.ins, [k |-> k, v |-> v])]
    /\ UNCHANGED <<held, wire, intact, tampers, got, obs, mapB>>

InsertB ==
    /\ Len(mapB.ins) < MaxInserts
    /\ \E k \in PublicKeys, v \in Signatures :
          mapB' = [map |-> BTreeMap_insert(mapB.map, k, v),
                   ins |-> Append(mapB.ins, [k |-> k, v |-> v])]
    /\ UNCHANGED <<held, wire, intact, tampers, got, obs, mapA>>

\* the Sigs response carrying map A is encoded
EncodeSigsA ==
    /\ held' = Holding("response", "literal",
                       [result |-> [variant |-> "Sigs", val |-> [signatures |-> mapA.map]],
                        id |-> U32(0, 0)])
    /\ wire' = Ser_Response(held'.val)
    /\ intact' = TRUE
    /\ got' = NoResult
    /\ obs' = NoObs
    /\ UNCHANGED <<tampers, mapA, mapB>>

(***************************************************************************)
(* Specifications.                                                         *)
(***************************************************************************)
Next ==
    \/ NewParams
    \/ FromSpendTx
    \/ From
    \/ SetId
    \/ NewResponse
    \/ Encode
    \/ TamperAdd
    \/ TamperSet
    \/ TamperDrop
    \/ TamperMethod
    \/ TamperId
    \/ TamperOrder
    \/ DecodeRequest
    \/ DecodeResponse
    \/ DecodeParams
    \/ Adopt
    \/ CallId
    \/ CallParams
    \/ CallSpendTx

Spec == Init /\ [][Next]_vars

NextMap ==
    \/ InsertA
    \/ InsertB
    \/ EncodeSigsA

SpecMap == Init /\ [][NextMap]_vars

(***************************************************************************)
(* Properties.                                                             *)
(***************************************************************************)
\* a round trip is in the state: `held` was encoded, the text reached the
\* decoder untouched and was decoded as `type`
RoundTrip(kind, type) == intact /\ held.kind = kind /\ got.as = type

\* the envelope's member of the given name (the first, should there be two)
Member(j, name) == j.m[CHOOSE i \in FieldIdx(j, name) : \A q \in FieldIdx(j, name) : i <= q].x

\* C1: decoding the encoded text of the Request built from a parameter record
\* (of any of the six kinds, with any id) returns a Request equal to it: same
\* variant, same method, same params, same id.
C1_RequestRoundTrip ==
    (RoundTrip("request", "Request") /\ held.origin \in {"from", "from_then_id"})
    => /\ got.res.ok
       /\ got.res.val.variant = held.val.variant
       /\ got.res.val.method = held.val.method
       /\ got.res.val.id = held.val.id
       /\ got.res.val.params = held.val.params

\* a SignRequest carrying a transaction without inputs, built by From, went round
C1_Witness ==
    /\ RoundTrip("request", "Request")
    /\ held.origin = "from"
    /\ held.val.variant = "Sign"
    /\ held.val.params.tx.input = <<>>
    /\ got.res.ok

\* C2 (as claimed): decoding the encoded text of a Response{result, id}, for
\* every variant of ResponseResult, returns an equal Response with the same
\* variant of the union.
C2_ResponseRoundTrip ==
    (RoundTrip("response", "Response") /\ held.origin = "literal")
    => /\ got.res.ok
       /\ got.res.val.id = held.val.id
       /\ got.res.val.result.variant = held.val.result.variant
       /\ got.res.val.result.val = held.val.result.val

\* the text is an envelope {method: string, params: object, id: u32}
WellFormedRequestEnvelope(j) ==
    LET f == GetFields(j, <<"method", "params", "id">>)
    IN  /\ j.t = "obj"
        /\ f.ok
        /\ De_str(f.val.method).ok
        /\ De_u32(f.val.id).ok
        /\ f.val.params.t = "obj"

\* the names of the members of the params object of an envelope
ParamNames(j) ==
    LET p == Member(j, "params") IN {p.m[q].k : q \in 1..Len(p.m)}

FieldSet(variant) == {<<ParamFields(variant)[n]>> : n \in 1..Len(ParamFields(variant))}

\* C3 (as claimed): decoding a well-formed request envelope whose params object
\* has a set of field names equal to the field set of none of the six kinds
\* fails.
C3_UnknownShapeFails ==
    (/\ got.as = "Request"
     /\ WellFormedRequestEnvelope(wire)
     /\ \A v \in Range(RequestVariants) : ParamNames(wire) # FieldSet(v))
    => ~got.res.ok

\* C4 (as claimed): the method string From assigns identifies the variant: a
\* record of any other kind gets a different method string.
C4_MethodIdentifiesVariant ==
    (held.kind = "request" /\ held.origin = "from")
    => \A v \in Range(RequestVariants) \ {held.val.variant} :
          MethodName(v) # held.val.method

\* C4 (amended): the method string From assigns identifies the variant except
\* for "sig", which watchtower Sig and coordinator Sig both get: a record of
\* another kind gets the same method string only if the two kinds are WtSig and
\* CoordSig.
C4_MethodIdentifiesVariantButSig ==
    (held.kind = "request" /\ held.origin = "from")
    => /\ held.val.method = MethodName(held.val.variant)
       /\ \A v \in Range(RequestVariants) \ {held.val.variant} :
             MethodName(v) = held.val.method
             => /\ {v, held.val.variant} = {"WtSig", "CoordSig"}
                /\ held.val.method = "sig"

\* From built a coordinator Sig request, whose method is the watchtower Sig's
C4_Witness ==
    /\ held.kind = "request"
    /\ held.origin = "from"
    /\ held.val.variant = "CoordSig"
    /\ held.val.method = MethodName("WtSig")

\* C5 (as claimed): every Request that is encoded, built by From or returned by
\* a decode, is emitted with the method constant of its variant.
C5_EmittedMethodIsVariantConstant ==
    (intact /\ held.kind = "request")
    => /\ FieldIdx(wire, "method") # {}
       /\ Member(wire, "method") = JStr(<<MethodName(held.val.variant)>>)

\* C6 (as claimed): for each kind, every value of the 32-bit range is a possible
\* id of the Request that From returns for the record held.
C6_EveryIdCanBeDrawn ==
    held.kind = "params"
    => \A n \in U32Samples :
          \E r \in impl_to_request(held.val.variant, held.val.val) : r.id = n

\* C7: from_spend_tx with a spend transaction that is not finalized aborts and
\* returns no SetSpendTx; with a finalized one it returns the record of the
\* given deposit outpoints and the transaction extracted from it.
C7_FromSpendTxNeedsFinalized ==
    obs.op = "from_spend_tx"
    => IF is_finalized(obs.val.tx)
       THEN /\ held.kind = "params"
            /\ held.val.variant = "SetSpendTx"
            /\ held.val.val.deposit_outpoints = obs.val.deposit_outpoints
            /\ held.val.val.transaction = extract_tx(obs.val.tx)
       ELSE held.kind = "panicked"

\* from_spend_tx was called with a transaction that is not finalized
C7_Witness ==
    /\ obs.op = "from_spend_tx"
    /\ ~is_finalized(obs.val.tx)
    /\ held.kind = "panicked"

Pairs(map) == {<<map[i].k, map[i].v>> : i \in 1..Len(map)}
SigsResponse(map) ==
    [result |-> [variant |-> "Sigs", val |-> [signatures |-> map]], id |-> U32(0, 0)]

\* C8: two key/signature maps holding the same (public key, signature) pairs,
\* inserted in any two orders, encode to the same text, alone and inside a
\* message.
C8_EncodingIgnoresInsertionOrder ==
    Pairs(mapA.map) = Pairs(mapB.map)
    => /\ Ser_SigMap(mapA.map) = Ser_SigMap(mapB.map)
       /\ (intact /\ held.val.result.val.signatures = mapA.map)
          => wire = Ser_Response(SigsResponse(mapB.map))

\* two maps of two entries each, built in different orders, and the Sigs
\* response of the first one encoded
C8_Witness ==
    /\ Len(mapA.map) = 2
    /\ Pairs(mapA.map) = Pairs(mapB.map)
    /\ mapA.ins # mapB.ins
    /\ intact
    /\ held.val.result.val.signatures = mapA.map

\* C9: a Sigs response decodes as Sigs with an equal map and a SignResult
\* response as SignResult with an equal list, the empty ones included, and
\* `signatures` is in the text as an object, respectively an array, of as many
\* members.
C9_SignaturesNotConfused ==
    (/\ RoundTrip("response", "Response")
     /\ held.val.result.variant \in {"Sigs", "SignResult"})
    => /\ got.res.ok
       /\ got.res.val.result.variant = held.val.result.variant
       /\ got.res.val.result.val.signatures = held.val.result.val.signatures
       /\ LET r == Member(wire, "result")
          IN  /\ Len(r.m) = 1
              /\ r.m[1].k = <<"signatures">>
              /\ r.m[1].x.t = (IF held.val.result.variant = "Sigs" THEN "obj" ELSE "arr")
              /\ Len(r.m[1].x.m) = Len(held.val.result.val.signatures)

\* a Sigs response with the empty map went round
C9_Witness ==
    /\ RoundTrip("response", "Response")
    /\ held.val.result.variant = "Sigs"
    /\ held.val.result.val.signatures = <<>>
    /\ Member(wire, "result") = JObj(<<Mem("signatures", JObj(<<>>))>>)
    /\ got.res.ok

\* C10: the id of a decoded Request or Response is the id of the value that was
\* encoded, id() returns the id of the Request whatever its variant, and the id
\* 4294967295 is emitted as the decimal literal 4294967295.
C10_IdCarriedThrough ==
    /\ RoundTrip("request", "Request")
       => (got.res.ok /\ got.res.val.id = held.val.id)
    /\ RoundTrip("response", "Response")
       => (got.res.ok /\ got.res.val.id = held.val.id)
    /\ obs.op = "id" => obs.val = held.val.id
    /\ (intact /\ held.kind \in {"request", "response"})
       => /\ FieldIdx(wire, "id") # {}
          /\ held.val.id = U32_MAX
             => Member(wire, "id") =
                   JNum(<<"4", "2", "9", "4", "9", "6", "7", "2", "9", "5">>)

\* a Request whose id is u32::MAX went round
C10_Witness ==
    /\ RoundTrip("request", "Request")
    /\ held.val.id = U32_MAX
    /\ got.res.ok
    /\ got.res.val.id = U32_MAX

\* the names of the members of an object, in the order of the text
MemberNames(j) == [a \in 1..Len(j.m) |-> j.m[a].k[1]]

\* text a holds the members of text b, in some order
IsReordering(a, b) ==
    /\ a.t = "obj"
    /\ b.t = "obj"
    /\ Len(a.m) = Len(b.m)
    /\ \E p \in Orders(Len(b.m)) : a.m = [q \in 1..Len(b.m) |-> b.m[p[q]]]

\* two outcomes of decoding a Request, respectively a Response, are the same
SameRequest(x, y) ==
    /\ x.ok = y.ok
    /\ x.ok => /\ x.val.variant = y.val.variant
               /\ x.val.method = y.val.method
               /\ x.val.id = y.val.id
               /\ x.val.params = y.val.params
SameResponse(x, y) ==
    /\ x.ok = y.ok
    /\ x.ok => /\ x.val.id = y.val.id
               /\ x.val.result.variant = y.val.result.variant
               /\ x.val.result.val = y.val.result.val

\* C11: an encoded Request lists method, params, id and an encoded Response
\* result, id, in that order; decoding the same members in any other order gives
\* what decoding them in the emitted order gives.
C11_FixedOrderOutAnyOrderIn ==
    /\ (intact /\ held.kind = "request")
       => MemberNames(wire) = <<"method", "params", "id">>
    /\ (intact /\ held.kind = "response")
       => MemberNames(wire) = <<"result", "id">>
    /\ (got.as = "Request" /\ IsReordering(wire, Ser_Request(held.val)))
       => SameRequest(got.res, De_Request(Ser_Request(held.val)))
    /\ (got.as = "Response" /\ IsReordering(wire, Ser_Response(held.val)))
       => SameResponse(got.res, De_Response(Ser_Response(held.val)))

\* a Request built by From was emitted, its members arrived with the id first
\* and were decoded
C11_Witness ==
    /\ got.as = "Request"
    /\ held.origin = "from"
    /\ IsReordering(wire, Ser_Request(held.val))
    /\ MemberNames(wire)[1] = "id"
    /\ got.res.ok
    /\ got.res.val.id = held.val.id

\* the transaction a value carries, if it is a SetSpendTx, a SignRequest or a
\* SpendTx, alone or inside a message: a sequence of one transaction or of none
TxOf(kind, v) ==
    CASE kind = "request" /\ v.variant = "SetSpendTx" -> <<v.params.transaction>>
      [] kind = "request" /\ v.variant = "Sign" -> <<v.params.tx>>
      [] kind = "params" /\ v.variant = "SetSpendTx" -> <<v.val.transaction>>
      [] kind = "params" /\ v.variant = "Sign" -> <<v.val.tx>>
      [] kind = "response" /\ v.result.variant = "SpendTx" -> <<v.result.val.transaction>>
      [] OTHER -> <<>>

\* the payload object of a text: the params or result member of an envelope,
\* the text itself when it is a bare params object
Payload(kind, j) ==
    CASE kind = "request" -> Member(j, "params")
      [] kind = "response" -> Member(j, "result")
      [] kind = "params" -> j

KindOf(type) ==
    CASE type = "Request" -> "request"
      [] type = "Response" -> "response"
      [] type = "RequestParams" -> "params"

\* C12: the hex text written for a transaction carried by a SetSpendTx, a SpendTx
\* or a SignRequest, one without inputs or without outputs included, is
\* lowercase hexadecimal, two digits per byte and nothing else, it reads back as
\* the same transaction, and so does the message around it.
C12_TxHexRoundTrip ==
    \A a \in 1..Len(TxOf(held.kind, held.val)) :
       LET t == TxOf(held.kind, held.val)[a]
           text == serde_tx_hex_serialize(t)
           back == serde_tx_hex_deserialize(text)
       IN  /\ text.t = "str"
           /\ Len(text.s) = 2 * Len(consensus_serialize(t))
           /\ \A q \in 1..Len(text.s) : text.s[q] \in Range(HexDigits)
           /\ back.ok
           /\ back.val = t
           /\ intact => \E q \in 1..Len(Payload(held.kind, wire).m) :
                           Payload(held.kind, wire).m[q].x = text
           /\ (intact /\ got.as # "none")
              => /\ got.res.ok
                 /\ TxOf(held.kind, got.res.val) = <<t>>

\* a SpendTx response carrying a transaction without inputs and without outputs
\* went round
C12_Witness ==
    /\ RoundTrip("response", "Response")
    /\ held.val.result.variant = "SpendTx"
    /\ held.val.result.val.transaction.input = <<>>
    /\ held.val.result.val.transaction.output = <<>>
    /\ got.res.ok
    /\ got.res.val.result.variant = "SpendTx"

\* the kinds of a union that carry a transaction, and the field that holds it
TxKinds(type) == IF type = "Response" THEN {"SpendTx"} ELSE {"SetSpendTx", "Sign"}
TxField(variant) == IF variant = "Sign" THEN "tx" ELSE "transaction"
FieldsOf(type, variant) ==
    IF type = "Response" THEN ResultFields(variant) ELSE ParamFields(variant)

\* the payload of the text has every field of a kind that carries a
\* transaction, and the text of the transaction field is not valid hexadecimal
\* or not the bytes of a transaction
HasMalformedTx(type, j) ==
    \E v \in TxKinds(type) :
       LET f == GetFields(Payload(KindOf(type), j), FieldsOf(type, v))
       IN  /\ f.ok
           /\ ~serde_tx_hex_deserialize(f.val[TxField(v)]).ok

\* C13 (as claimed): decoding a message whose transaction field is not valid
\* hexadecimal, or not the bytes of a transaction, fails: it yields no record,
\* of the kind that carries the transaction or of another.
C13_MalformedTransactionFails ==
    (got.as # "none" /\ HasMalformedTx(got.as, wire)) => ~got.res.ok

\* every input of the transaction carries a witness
IsFinalizedTx(tx) == \A a \in 1..Len(tx.input) : tx.input[a].witness # <<>>

\* the transaction of a SetSpendTx, alone or inside a Request: a sequence of one
\* transaction or of none
SetSpendTxOf(kind, v) ==
    CASE kind = "request" /\ v.variant = "SetSpendTx" -> <<v.params.transaction>>
      [] kind = "params" /\ v.variant = "SetSpendTx" -> <<v.val.transaction>>
      [] OTHER -> <<>>

\* C15 (as claimed): every SetSpendTx, built by from_spend_tx or returned by a
\* decode, carries a finalized transaction.
C15_SetSpendTxIsFinalized ==
    /\ \A a \in 1..Len(SetSpendTxOf(held.kind, held.val)) :
          IsFinalizedTx(SetSpendTxOf(held.kind, held.val)[a])
    /\ (got.as \in {"Request", "RequestParams"} /\ got.res.ok)
       => \A a \in 1..Len(SetSpendTxOf(KindOf(got.as), got.res.val)) :
             IsFinalizedTx(SetSpendTxOf(KindOf(got.as), got.res.val)[a])

\* the shape of a parameter record: its (field name, field type) pairs
Shape(variant) ==
    {<<ParamFields(variant)[n], ParamTypes(variant)[n]>> : n \in 1..Len(ParamFields(variant))}

\* the kinds whose deserializer accepts a params object
Accepting(j) == {v \in Range(RequestVariants) : De_params(v, j).ok}

IndexOf(variants, v) == CHOOSE n \in 1..Len(variants) : variants[n] = v
Names(fields) == {fields[n] : n \in 1..Len(fields)}
StrictSubset(a, b) == a \subseteq b /\ a # b

\* C16: in Request, RequestParams and ResponseResult, a variant whose fields are
\* a strict subset of another's is declared, and so tried, after it, and the
\* text emitted for the larger one is never decoded as the smaller.
C16_SupersetTriedFirst ==
    /\ \A a, b \in Range(RequestVariants) :
          StrictSubset(Names(ParamFields(a)), Names(ParamFields(b)))
          => IndexOf(RequestVariants, b) < IndexOf(RequestVariants, a)
    /\ \A a, b \in Range(ResponseResultVariants) :
          StrictSubset(Names(ResultFields(a)), Names(ResultFields(b)))
          => IndexOf(ResponseResultVariants, b) < IndexOf(ResponseResultVariants, a)
    /\ (intact /\ got.as \in {"Request", "RequestParams"})
       => /\ got.res.ok
          /\ ~StrictSubset(Names(ParamFields(got.res.val.variant)),
                           Names(ParamFields(held.val.variant)))
    /\ (intact /\ got.as = "Response")
       => /\ got.res.ok
          /\ ~StrictSubset(Names(ResultFields(got.res.val.result.variant)),
                           Names(ResultFields(held.val.result.variant)))

\* a watchtower SigResult (ack, txid) response went round and was not taken for
\* an ack-only result
C16_Witness ==
    /\ RoundTrip("response", "Response")
    /\ held.val.result.variant = "WtSig"
    /\ got.res.ok
    /\ got.res.val.result.variant = "WtSig"

=============================================================================
